---- MODULE Spec2Model ----
(***************************************************************************)
(* The trivia backend of src/backend/flaskr/__init__.py as a state         *)
(* machine: the Category and Question tables, one action per route         *)
(* handler, and the last request and response.                             *)
(***************************************************************************)
EXTENDS Integers, Sequences, FiniteSets, TLC

VARIABLES
  categories,   \* the Category table: rows [id, type] in primary-key order
  questions,    \* the Question table: rows in primary-key order
  nextId,       \* the next primary key the Question table hands out
  req,          \* the request being answered
  resp,         \* the response to it: [status, body]
  session       \* a quiz client's own state (no server-side session exists)

vars == <<categories, questions, nextId, req, resp, session>>

QUESTIONS_PER_PAGE == 10

(* Bounds of the model. *)
MaxId == 2        \* primary keys handed out in Spec and SpecSession
MaxPrev == 2      \* length of a submitted previous_questions list
MaxSeed == 21     \* size of a seeded Question table in SpecList
MaxPeriod == 3    \* category patterns of a seeded Question table
MaxPage == 3      \* largest page number requested in SpecList

Min(a, b) == IF a < b THEN a ELSE b
Max(a, b) == IF a > b THEN a ELSE b

(***************************************************************************)
(* Values.  A text is a sequence of characters, so that the search's       *)
(* case-insensitive pattern match is computed, not assumed.                *)
(***************************************************************************)
Texts == { <<"T", "i">>, <<"a", "t">> }
Answers == { "yes" }
Difficulties == { 3 }
CategoryIds == { 1, 2 }
SearchTerms == { <<"t", "I">>, <<"_", "t">>, <<"x">> }

CategoryTables ==
  { <<>>, << [id |-> 1, type |-> "Science"], [id |-> 2, type |-> "Art"] >> }

Range(s) == { s[i] : i \in 1..Len(s) }

RECURSIVE SelectSeq2(_, _)
(* The rows of s that are in accepted, in the order of s.                  *)
SelectSeq2(s, accepted) ==
  IF s = <<>> THEN <<>>
  ELSE IF Head(s) \in accepted
       THEN <<Head(s)>> \o SelectSeq2(Tail(s), accepted)
       ELSE SelectSeq2(Tail(s), accepted)

(***************************************************************************)
(* Question.format() of models.py: the row as a JSON object.               *)
(***************************************************************************)
Format(q) ==
  [ id |-> q.id, question |-> q.question, answer |-> q.answer,
    category |-> q.category, difficulty |-> q.difficulty ]

(***************************************************************************)
(* request.args.get('page', 1, type=int): the parameter is absent, or a    *)
(* string int() parses, or a string it rejects (the default is returned).  *)
(***************************************************************************)
NoPage == [kind |-> "absent"]
BadPage == [kind |-> "text"]
IntPage(n) == [kind |-> "int", val |-> n]

ArgsGetInt(arg, default) ==
  IF arg.kind = "int" THEN arg.val ELSE default

(***************************************************************************)
(* Python's s[start:end]: a negative index counts from the end, both are   *)
(* clipped to the list, and an empty range gives the empty list.           *)
(***************************************************************************)
SliceIndex(i, len) == IF i < 0 THEN Max(i + len, 0) ELSE Min(i, len)

PySlice(s, start, end) ==
  LET lo == SliceIndex(start, Len(s))
      hi == SliceIndex(end, Len(s))
  IN  IF lo < hi THEN SubSeq(s, lo + 1, hi) ELSE <<>>

(* paginate with a slice that ends one item late. *)
paginate_off_by_one(pageArg, selection) ==
  LET page == ArgsGetInt(pageArg, 1)
      start == (page - 1) * QUESTIONS_PER_PAGE
  IN  PySlice([i \in 1..Len(selection) |-> Format(selection[i])],
              start, start + QUESTIONS_PER_PAGE + 1)

paginate(pageArg, selection) ==
  LET page == ArgsGetInt(pageArg, 1)
      start == (page - 1) * QUESTIONS_PER_PAGE
      end == start + QUESTIONS_PER_PAGE
      formatted == [i \in 1..Len(selection) |-> Format(selection[i])]
  IN  PySlice(formatted, start, end)

(***************************************************************************)
(* Responses: jsonify(...) answers 200; abort(code) is answered by the     *)
(* error handler of that code; an exception no handler catches is          *)
(* answered 500 with a page that is no JSON object.                        *)
(***************************************************************************)
Jsonify(body) == [status |-> 200, body |-> body]

ErrorMessage(code) ==
  CASE code = 404 -> "resource not found"
    [] code = 422 -> "unprocessable"
    [] code = 400 -> "bad request"

Abort(code) ==
  [ status |-> code,
    body |-> [success |-> FALSE, error |-> code, message |-> ErrorMessage(code)] ]

Unhandled(exception) ==
  [status |-> 500, body |-> [exception |-> exception]]

(***************************************************************************)
(* The storage layer (models.py): queries answer rows in primary-key       *)
(* order; insert() appends the row under a fresh primary key; delete()     *)
(* removes the row.                                                        *)
(***************************************************************************)
QueryGet(table, id) == { row \in Range(table) : row.id = id }

FilterByCategory(table, category) ==
  SelectSeq2(table, { q \in Range(table) : q.category = category })

Insert(table, row, id) ==
  Append(table, [ id |-> id, question |-> row.question, answer |-> row.answer,
                  category |-> row.category, difficulty |-> row.difficulty ])

Delete(table, row) == SelectSeq2(table, Range(table) \ {row})

(***************************************************************************)
(* Question.question.ilike(pattern): SQL's case-insensitive LIKE, where    *)
(* % matches any run of characters and _ any one character.                *)
(***************************************************************************)
Lower(c) ==
  CASE c = "T" -> "t"
    [] c = "I" -> "i"
    [] c = "A" -> "a"
    [] OTHER -> c

RECURSIVE ILike(_, _)
ILike(text, pattern) ==
  IF pattern = <<>> THEN text = <<>>
  ELSE IF Head(pattern) = "%"
       THEN \/ ILike(text, Tail(pattern))
            \/ text # <<>> /\ ILike(Tail(text), pattern)
       ELSE /\ text # <<>>
            /\ Head(pattern) = "_" \/ Lower(Head(pattern)) = Lower(Head(text))
            /\ ILike(Tail(text), Tail(pattern))

(* body.get(key): None for an absent (or null) field. *)
Has(body, key) == key \in DOMAIN body

(***************************************************************************)
(* GET /categories                                                         *)
(***************************************************************************)
get_categories(cats) ==
  LET cat_dict == [ id \in { c.id : c \in Range(cats) } |->
                      (CHOOSE c \in Range(cats) : c.id = id).type ]
  IN  IF Cardinality(DOMAIN cat_dict) = 0
      THEN Abort(404)
      ELSE Jsonify([success |-> TRUE, categories |-> cat_dict])

(***************************************************************************)
(* GET /questions                                                          *)
(***************************************************************************)
(* get_questions reporting the length of the page as total_questions. *)
get_questions_page_total(pageArg, table, cats) ==
  LET selection == paginate(pageArg, table)
  IN  IF Len(selection) = 0
      THEN Abort(404)
      ELSE Jsonify([ success |-> TRUE, questions |-> selection,
                     total_questions |-> Len(selection),
                     categories |-> [i \in 1..Len(cats) |-> cats[i].type] ])

get_questions(pageArg, table, cats) ==
  LET all_questions == table
      total == Len(all_questions)
      selection == paginate(pageArg, all_questions)
      types == [i \in 1..Len(cats) |-> cats[i].type]
  IN  IF Len(selection) = 0
      THEN Abort(404)
      ELSE Jsonify([ success |-> TRUE, questions |-> selection,
                     total_questions |-> total, categories |-> types ])

(***************************************************************************)
(* DELETE /questions/<id>: the response and the table it leaves.           *)
(* question.delete() removes the row; the except branch (422) is taken     *)
(* only when that call raises, which the storage layer does not do for a   *)
(* row it has just read.                                                   *)
(***************************************************************************)
(* delete_question without the call of question.delete(). *)
delete_question_keeps_row(id, table) ==
  IF QueryGet(table, id) = {}
  THEN [resp |-> Abort(404), questions |-> table]
  ELSE [resp |-> Jsonify([success |-> TRUE, deleted |-> id]), questions |-> table]

delete_question(id, table) ==
  LET found == QueryGet(table, id)
  IN  IF found = {}
      THEN [resp |-> Abort(404), questions |-> table]
      ELSE LET question == CHOOSE q \in found : TRUE
           IN  [ resp |-> Jsonify([success |-> TRUE, deleted |-> id]),
                 questions |-> Delete(table, question) ]

(***************************************************************************)
(* POST /questions: search when the body holds a non-empty searchTerm,     *)
(* create otherwise.  The response, the table and the next primary key.    *)
(***************************************************************************)
SearchMode(body) == Has(body, "searchTerm") /\ body["searchTerm"] # <<>>

search_questions(body, pageArg, table) ==
  LET search_term == body["searchTerm"]
      pattern == <<"%">> \o search_term \o <<"%">>
      selection == SelectSeq2(table,
                     { q \in Range(table) : ILike(q.question, pattern) })
      results == paginate(pageArg, selection)
  IN  IF Len(selection) = 0
      THEN Abort(404)
      ELSE Jsonify([ success |-> TRUE, questions |-> results,
                     total_questions |-> Len(results) ])

(* The Question of line 161 with difficulty and category exchanged. *)
NewQuestion_swapped(body) ==
  [ question |-> body["question"], answer |-> body["answer"],
    difficulty |-> body["category"], category |-> body["difficulty"] ]

NewQuestion(body) ==
  [ question |-> body["question"], answer |-> body["answer"],
    difficulty |-> body["difficulty"], category |-> body["category"] ]

(* create_question testing only question and category for None. *)
create_question_unchecked(body, pageArg, insertRaises, table, id) ==
  IF insertRaises \/ ~Has(body, "question") \/ ~Has(body, "category")
  THEN [resp |-> Abort(422), questions |-> table, nextId |-> id]
  ELSE LET row == [ question |-> body["question"],
                    answer |-> IF Has(body, "answer") THEN body["answer"] ELSE "",
                    difficulty |-> IF Has(body, "difficulty")
                                   THEN body["difficulty"] ELSE 1,
                    category |-> body["category"] ]
           selection == Insert(table, row, id)
       IN  [ resp |-> Jsonify([ success |-> TRUE, created |-> id,
                                question_created |-> row.question,
                                questions |-> paginate(pageArg, selection),
                                total_questions |-> Len(selection) ]),
             questions |-> selection, nextId |-> id + 1 ]

create_question(body, pageArg, insertRaises, table, id) ==
  IF \/ ~Has(body, "question") \/ ~Has(body, "answer")
     \/ ~Has(body, "difficulty") \/ ~Has(body, "category")
  THEN [resp |-> Abort(422), questions |-> table, nextId |-> id]
  ELSE IF insertRaises
  THEN [resp |-> Abort(422), questions |-> table, nextId |-> id]
  ELSE LET question == NewQuestion(body)
           selection == Insert(table, question, id)
           current_questions == paginate(pageArg, selection)
       IN  [ resp |-> Jsonify([ success |-> TRUE, created |-> id,
                                question_created |-> question.question,
                                questions |-> current_questions,
                                total_questions |-> Len(selection) ]),
             questions |-> selection, nextId |-> id + 1 ]

post_question(hasBody, body, pageArg, insertRaises, table, id) ==
  IF ~hasBody
  THEN [ resp |-> Unhandled("AttributeError"), questions |-> table,
         nextId |-> id ]
  ELSE IF SearchMode(body)
  THEN [ resp |-> search_questions(body, pageArg, table), questions |-> table,
         nextId |-> id ]
  ELSE create_question(body, pageArg, insertRaises, table, id)

(***************************************************************************)
(* GET /categories/<id>/questions                                          *)
(***************************************************************************)
(* get_questions_by_category answering 404 for an unknown category or an   *)
(* empty page, as get_questions does.                                      *)
get_questions_by_category_404(id, pageArg, table, cats) ==
  LET found == QueryGet(cats, id)
      listed == FilterByCategory(table, id)
      page == paginate(pageArg, listed)
  IN  IF found = {} \/ Len(page) = 0
      THEN Abort(404)
      ELSE Jsonify([ success |-> TRUE, questions |-> page,
                     total_questions |-> Len(listed),
                     current_category |-> (CHOOSE c \in found : TRUE).type ])

get_questions_by_category(id, pageArg, table, cats) ==
  LET found == QueryGet(cats, id)
  IN  IF found = {}
      THEN Abort(400)
      ELSE LET category == CHOOSE c \in found : TRUE
               listed == FilterByCategory(table, category.id)
               question_paginated == paginate(pageArg, listed)
           IN  Jsonify([ success |-> TRUE, questions |-> question_paginated,
                         total_questions |-> Len(listed),
                         current_category |-> category.type ])

(***************************************************************************)
(* POST /quizzes: the set of responses the handler can give (the pick      *)
(* among the unused questions is random.choice).                           *)
(***************************************************************************)
Candidates(quiz_category_id, table) ==
  IF quiz_category_id = 0 THEN table
  ELSE FilterByCategory(table, quiz_category_id)

(* quiz_pick choosing among all candidates, not only the unused ones. *)
quiz_pick_any(previous_questions, candidates) ==
  { Jsonify([success |-> TRUE, question |-> Format(q)]) :
      q \in Range(candidates) }

quiz_pick(previous_questions, candidates) ==
  LET new_list == SelectSeq2(candidates,
                    { q \in Range(candidates) :
                        q.id \notin Range(previous_questions) })
  IN  IF new_list = <<>>
      THEN { Unhandled("IndexError") }
      ELSE { Jsonify([success |-> TRUE, question |-> Format(q)]) :
               q \in Range(new_list) }

(* quiz_answer without the test of lines 235-237. *)
quiz_never_exhausted(previous_questions, candidates) ==
  quiz_pick(previous_questions, candidates)

quiz_answer(previous_questions, candidates) ==
  LET total == Len(candidates)
  IN  IF total = Len(previous_questions)
      THEN { Jsonify([success |-> TRUE]) }
      ELSE quiz_pick(previous_questions, candidates)

post_random_quiz_question(hasBody, body, table) ==
  IF ~hasBody \/ DOMAIN body = {}
  THEN { Abort(400) }
  ELSE IF ~Has(body, "previous_questions") \/ ~Has(body, "quiz_category")
  THEN { Unhandled("KeyError") }
  ELSE quiz_answer(body["previous_questions"],
                   Candidates(body["quiz_category"].id, table))

(***************************************************************************)
(* Requests.                                                               *)
(***************************************************************************)
SmallPages == { NoPage, IntPage(2) }
ListPages == { NoPage, BadPage } \cup { IntPage(p) : p \in -1..MaxPage }

EmptyBody == [k \in {} |-> TRUE]

FullBodies ==
  { [question |-> <<"T", "i">>, answer |-> "yes", difficulty |-> 3, category |-> 1],
    [question |-> <<"a", "t">>, answer |-> "yes", difficulty |-> 3, category |-> 2] }

Without(body, key) == [k \in DOMAIN body \ {key} |-> body[k]]

SampleBody ==
  [question |-> <<"T", "i">>, answer |-> "yes", difficulty |-> 3, category |-> 1]

PostBodies ==
  FullBodies
    \cup { Without(SampleBody, key) : key \in DOMAIN SampleBody }
    \cup { [searchTerm |-> term] : term \in SearchTerms }
    \cup { [searchTerm |-> <<>>] @@ SampleBody, EmptyBody }

PrevLists == UNION { [1..n -> 1..MaxId] : n \in 0..MaxPrev }

QuizBodies ==
  { [previous_questions |-> prev, quiz_category |-> [id |-> c]] :
      prev \in PrevLists, c \in {0} \cup CategoryIds }
    \cup { [previous_questions |-> <<>>], [quiz_category |-> [id |-> 0]],
           EmptyBody }

NoRequest == [op |-> "none"]
NoResponse == [status |-> 0, body |-> EmptyBody]
NoSession ==
  [ active |-> FALSE, previous_questions |-> <<>>, quiz_category |-> 0,
    calls |-> 0, done |-> FALSE ]

IsCreate(body) ==
  /\ ~SearchMode(body)
  /\ Has(body, "question") /\ Has(body, "answer")
  /\ Has(body, "difficulty") /\ Has(body, "category")

(***************************************************************************)
(* Actions: one per route handler.                                         *)
(***************************************************************************)
GetCategories ==
  /\ req' = [op |-> "get_categories"]
  /\ resp' = get_categories(categories)
  /\ UNCHANGED <<categories, questions, nextId, session>>

GetQuestions(pages) ==
  \E page \in pages :
    /\ req' = [op |-> "get_questions", page |-> page]
    /\ resp' = get_questions(page, questions, categories)
    /\ UNCHANGED <<categories, questions, nextId, session>>

DeleteQuestion ==
  \E id \in 1..MaxId :
    LET out == delete_question(id, questions)
    IN  /\ req' = [op |-> "delete_question", id |-> id]
        /\ resp' = out.resp
        /\ questions' = out.questions
        /\ UNCHANGED <<categories, nextId, session>>

PostQuestion(bodies, pages, maxId) ==
  \E hasBody \in BOOLEAN :
    \E body \in IF hasBody THEN bodies ELSE {EmptyBody} :
      \E page \in pages :
        \E insertRaises \in IF hasBody /\ IsCreate(body) THEN BOOLEAN ELSE {FALSE} :
          LET out == post_question(hasBody, body, page, insertRaises,
                                   questions, nextId)
          IN  /\ out.nextId <= maxId + 1
              /\ req' = [ op |-> "post_question", hasBody |-> hasBody,
                          body |-> body, page |-> page,
                          insertRaises |-> insertRaises ]
              /\ resp' = out.resp
              /\ questions' = out.questions
              /\ nextId' = out.nextId
              /\ UNCHANGED <<categories, session>>

GetQuestionsByCategory(pages) ==
  \E id \in CategoryIds \cup {3} :
    \E page \in pages :
      /\ req' = [op |-> "get_questions_by_category", id |-> id, page |-> page]
      /\ resp' = get_questions_by_category(id, page, questions, categories)
      /\ UNCHANGED <<categories, questions, nextId, session>>

PostQuiz ==
  \E hasBody \in BOOLEAN :
    \E body \in IF hasBody THEN QuizBodies ELSE {EmptyBody} :
      /\ req' = [op |-> "post_quiz", hasBody |-> hasBody, body |-> body]
      /\ resp' \in post_random_quiz_question(hasBody, body, questions)
      /\ UNCHANGED <<categories, questions, nextId, session>>

(***************************************************************************)
(* Spec: the service from an empty Question table, every handler.          *)
(***************************************************************************)
Init ==
  /\ categories \in CategoryTables
  /\ questions = <<>>
  /\ nextId = 1
  /\ req = NoRequest
  /\ resp = NoResponse
  /\ session = NoSession

Next ==
  \/ GetCategories
  \/ GetQuestions(SmallPages)
  \/ DeleteQuestion
  \/ PostQuestion(PostBodies, SmallPages, MaxId)
  \/ GetQuestionsByCategory(SmallPages)
  \/ PostQuiz

Spec == Init /\ [][Next]_vars

(***************************************************************************)
(* Seeded tables: n rows with primary keys first..first+n-1, every         *)
(* period-th of them in category 2 and the others in category 1.           *)
(***************************************************************************)
Seed(n, period, first) ==
  [ i \in 1..n |->
      [ id |-> first + i - 1,
        question |-> IF i % 2 = 0 THEN <<"T", "i">> ELSE <<"a", "t">>,
        answer |-> "yes",
        category |-> IF period > 0 /\ i % period = 0 THEN 2 ELSE 1,
        difficulty |-> 3 ] ]

FullCategoryTable ==
  << [id |-> 1, type |-> "Science"], [id |-> 2, type |-> "Art"] >>

(***************************************************************************)
(* SpecPaginate: paginate as a function of a result list and a page        *)
(* parameter.                                                              *)
(***************************************************************************)
InitPaginate ==
  /\ categories = FullCategoryTable
  /\ \E n \in 0..MaxSeed, period \in 0..MaxPeriod :
       /\ questions = Seed(n, period, 1)
       /\ nextId = n + 1
  /\ req = NoRequest
  /\ resp = NoResponse
  /\ session = NoSession

Paginate ==
  \E page \in ListPages :
    /\ req' = [op |-> "paginate", page |-> page]
    /\ resp' = [status |-> 0, body |-> paginate(page, questions)]
    /\ UNCHANGED <<categories, questions, nextId, session>>

SpecPaginate == InitPaginate /\ [][Paginate]_vars

(***************************************************************************)
(* SpecList: the listing and create handlers over tables long enough to    *)
(* span several pages.  The seeded rows end at primary key MaxSeed, so     *)
(* one more row can be created.                                            *)
(***************************************************************************)
InitList ==
  /\ categories = FullCategoryTable
  /\ \E n \in 0..MaxSeed, period \in 0..MaxPeriod :
       questions = Seed(n, period, MaxSeed - n + 1)
  /\ nextId = MaxSeed + 1
  /\ req = NoRequest
  /\ resp = NoResponse
  /\ session = NoSession

NextList ==
  \/ GetQuestions(ListPages)
  \/ GetQuestionsByCategory(ListPages)
  \/ PostQuestion(FullBodies, SmallPages, MaxSeed + 1)

SpecList == InitList /\ [][NextList]_vars

(***************************************************************************)
(* SpecSession: a quiz client over a table nobody changes.  The client     *)
(* starts with no previous question, posts its list with a fixed           *)
(* category, and appends the id of each question it is given.              *)
(***************************************************************************)
Rows ==
  [ id : 1..MaxId, question : Texts, answer : Answers,
    category : CategoryIds, difficulty : Difficulties ]

Tables ==
  { t \in UNION { [1..n -> Rows] : n \in 0..MaxId } :
      \A i \in 1..Len(t) : \A j \in 1..Len(t) : i < j => t[i].id < t[j].id }

InitSession ==
  /\ categories = FullCategoryTable
  /\ questions \in Tables
  /\ nextId = MaxId + 1
  /\ req = NoRequest
  /\ resp = NoResponse
  /\ \E c \in {0} \cup CategoryIds :
       session = [ active |-> TRUE, previous_questions |-> <<>>,
                   quiz_category |-> c, calls |-> 0, done |-> FALSE ]

QuizSessionStep ==
  /\ session.active /\ ~session.done
  /\ Len(session.previous_questions) <= MaxId
  /\ LET body == [ previous_questions |-> session.previous_questions,
                   quiz_category |-> [id |-> session.quiz_category] ]
     IN  /\ req' = [op |-> "post_quiz", hasBody |-> TRUE, body |-> body]
         /\ resp' \in post_random_quiz_question(TRUE, body, questions)
  /\ session' =
       IF resp'.status = 200 /\ Has(resp'.body, "question")
       THEN [ session EXCEPT
                !.previous_questions = Append(@, resp'.body.question.id),
                !.calls = @ + 1 ]
       ELSE [session EXCEPT !.calls = @ + 1, !.done = TRUE]
  /\ UNCHANGED <<categories, questions, nextId>>

SpecSession ==
  InitSession /\ [][QuizSessionStep]_vars /\ WF_vars(QuizSessionStep)

(***************************************************************************)
(* Properties.                                                             *)
(***************************************************************************)
Ids(table) == { table[i].id : i \in 1..Len(table) }

RequestedPage(arg) == IF arg.kind = "int" THEN arg.val ELSE 1

SameItem(item, row) ==
  /\ item.id = row.id
  /\ item.question = row.question
  /\ item.answer = row.answer
  /\ item.category = row.category
  /\ item.difficulty = row.difficulty

(* C1: for a list of length L and a requested page p >= 1 (an absent or    *)
(* non-integer parameter counts as 1), paginate returns the formatted      *)
(* items at offsets 10(p-1) .. 10p-1 that exist: min(10, max(0, L -        *)
(* 10(p-1))) of them, never more than 10, none when the offset is past     *)
(* the end.                                                                *)
C1_PaginateSlice ==
  req.op = "paginate" =>
    LET p == RequestedPage(req.page)
        L == Len(questions)
        offset == 10 * (p - 1)
        got == resp.body
    IN  p >= 1 =>
          /\ Len(got) = Min(10, Max(0, L - offset))
          /\ Len(got) <= 10
          /\ \A i \in 1..Len(got) : SameItem(got[i], questions[offset + i])
          /\ offset >= L => got = <<>>

C1_Witness ==
  /\ req.op = "paginate"
  /\ req.page = IntPage(3)
  /\ Len(questions) = 21
  /\ Len(resp.body) = 1
  /\ resp.body[1].id = questions[21].id

(* C2: a question carried by the response to POST /quizzes is a stored     *)
(* question of the selected category (any category for id 0) whose id is   *)
(* not in the submitted previous_questions.                                *)
C2_QuizContainment ==
  (req.op = "post_quiz" /\ Has(resp.body, "question")) =>
    LET item == resp.body.question
        prev == req.body.previous_questions
        cat == req.body.quiz_category.id
    IN  /\ resp.status = 200
        /\ item.id \notin Range(prev)
        /\ \E row \in Range(questions) :
             /\ SameItem(item, row)
             /\ cat = 0 \/ row.category = cat

C2_Witness ==
  /\ req.op = "post_quiz"
  /\ Has(resp.body, "question")
  /\ Len(req.body.previous_questions) >= 1
  /\ req.body.quiz_category.id # 0
  /\ Len(questions) >= 2

QuizWellFormed ==
  /\ req.op = "post_quiz"
  /\ req.hasBody
  /\ Has(req.body, "previous_questions")
  /\ Has(req.body, "quiz_category")

CandidateIds(cat) ==
  { q.id : q \in { r \in Range(questions) : cat = 0 \/ r.category = cat } }

(* C3: when previous_questions lists the id of every candidate question    *)
(* of the selected category once and nothing else, POST /quizzes answers   *)
(* 200 with the body {success: true} and no question.                      *)
C3_QuizExhausted ==
  QuizWellFormed =>
    LET prev == req.body.previous_questions
        ids == CandidateIds(req.body.quiz_category.id)
    IN  (Range(prev) = ids /\ Len(prev) = Cardinality(ids)) =>
          /\ resp.status = 200
          /\ DOMAIN resp.body = {"success"}
          /\ resp.body.success = TRUE

C3_Witness ==
  /\ QuizWellFormed
  /\ Len(req.body.previous_questions) = 2
  /\ Range(req.body.previous_questions) =
       CandidateIds(req.body.quiz_category.id)
  /\ resp.status = 200

(* C4: POST /quizzes answers every body that carries previous_questions    *)
(* and quiz_category.id with status 200 or 400 and a JSON object holding   *)
(* success, whatever the table holds.  (random.choice raises IndexError    *)
(* on an empty new_list, which no handler catches.)                        *)
C4_QuizAlwaysAnswers ==
  QuizWellFormed =>
    /\ resp.status \in {200, 400}
    /\ Has(resp.body, "success")

C6_CreateRoundTrip ==
  [][ (req'.op = "post_question" /\ resp'.status = 200
         /\ Has(resp'.body, "created")) =>
        LET id == resp'.body.created
            body == req'.body
            at == { i \in 1..Len(questions') : questions'[i].id = id }
        IN  /\ Cardinality(at) = 1
            /\ id \notin Ids(questions)
            /\ Len(questions') = Len(questions) + 1
            /\ \A i \in 1..Len(questions) : questions'[i] = questions[i]
            /\ \A i \in at :
                 /\ questions'[i].question = body["question"]
                 /\ questions'[i].answer = body["answer"]
                 /\ questions'[i].difficulty = body["difficulty"]
                 /\ questions'[i].category = body["category"]
                 /\ LET page == ((i - 1) \div 10) + 1
                        listing == get_questions(IntPage(page), questions',
                                                 categories')
                    IN  /\ listing.status = 200
                        /\ \E k \in 1..Len(listing.body.questions) :
                             LET item == listing.body.questions[k]
                             IN  /\ item.id = id
                                 /\ item.question = body["question"]
                                 /\ item.answer = body["answer"]
                                 /\ item.difficulty = body["difficulty"]
                                 /\ item.category = body["category"] ]_vars

C6_Witness ==
  /\ req.op = "post_question"
  /\ resp.status = 200
  /\ Has(resp.body, "created")
  /\ Len(questions) = 12
  /\ questions[12].id = resp.body.created
  /\ get_questions(IntPage(2), questions, categories).body.questions[2].id
       = resp.body.created

(* C7: GET /questions?page=p answers 404 exactly when the page's slice is  *)
(* empty; otherwise 200 with questions = the slice and total_questions =   *)
(* the number of stored questions.  With 12 stored questions page 1 holds  *)
(* 10 items and page 2 the other 2, both with total_questions 12.          *)
C7_ListQuestions ==
  req.op = "get_questions" =>
    LET slice == paginate(req.page, questions)
    IN  /\ (resp.status = 404) <=> (slice = <<>>)
        /\ resp.status \in {200, 404}
        /\ resp.status = 200 =>
             /\ resp.body.success = TRUE
             /\ resp.body.questions = slice
             /\ resp.body.total_questions = Len(questions)
        /\ Len(questions) = 0 => resp.status = 404
        /\ RequestedPage(req.page) > (Len(questions) + 9) \div 10
             => resp.status = 404
        /\ (Len(questions) = 12 /\ req.page = IntPage(1)) =>
             /\ Len(resp.body.questions) = 10
             /\ resp.body.total_questions = 12
        /\ (Len(questions) = 12 /\ req.page = IntPage(2)) =>
             /\ Len(resp.body.questions) = 2
             /\ resp.body.questions[1].id = questions[11].id
             /\ resp.body.questions[2].id = questions[12].id
             /\ resp.body.total_questions = 12

C7_Witness ==
  /\ req.op = "get_questions"
  /\ Len(questions) = 12
  /\ req.page = IntPage(2)
  /\ resp.status = 200
  /\ Len(resp.body.questions) = 2
  /\ resp.body.total_questions = 12

(* C8: GET /categories/<id>/questions answers 400 when no category has     *)
(* the id; otherwise 200 with questions = the page's slice of the          *)
(* questions of that category, total_questions = their number, and         *)
(* current_category = the category's type, also when the slice is empty.   *)
C8_ListByCategory ==
  req.op = "get_questions_by_category" =>
    LET known == { c \in Range(categories) : c.id = req.id }
        listed == SelectSeq(questions, LAMBDA q : q.category = req.id)
    IN  IF known = {}
        THEN resp.status = 400
        ELSE /\ resp.status = 200
             /\ resp.body.success = TRUE
             /\ resp.body.questions = paginate(req.page, listed)
             /\ resp.body.total_questions = Len(listed)
             /\ \A c \in known : resp.body.current_category = c.type

C8_Witness ==
  /\ req.op = "get_questions_by_category"
  /\ req.id = 2
  /\ req.page = IntPage(2)
  /\ resp.status = 200
  /\ resp.body.questions = <<>>
  /\ resp.body.total_questions = 10
  /\ resp.body.current_category = "Art"

(* C9: a POST /questions whose body holds no non-empty searchTerm answers  *)
(* 422 and leaves the table as it is when one of question, answer,         *)
(* difficulty, category is absent; when the four are present and the       *)
(* insert does not raise it answers 200 and the table gains one question.  *)
C9_CreateValidation ==
  [][ (req'.op = "post_question" /\ req'.hasBody /\ ~SearchMode(req'.body)) =>
        LET body == req'.body
        IN  IF \E key \in {"question", "answer", "difficulty", "category"} :
                 key \notin DOMAIN body
            THEN /\ resp'.status = 422
                 /\ questions' = questions
            ELSE ~req'.insertRaises =>
                   /\ resp'.status = 200
                   /\ Len(questions') = Len(questions) + 1
                   /\ SubSeq(questions', 1, Len(questions)) = questions ]_vars

C9_Witness ==
  /\ req.op = "post_question"
  /\ req.hasBody
  /\ DOMAIN req.body = {"question", "difficulty", "category"}
  /\ resp.status = 422
  /\ Len(questions) >= 1

SessionOk ==
  LET prev == session.previous_questions
      ids == CandidateIds(session.quiz_category)
      N == Cardinality(ids)
  IN  /\ Cardinality(Range(prev)) = Len(prev)
      /\ Range(prev) \subseteq ids
      /\ session.calls >= 1 => resp.status = 200
      /\ ~session.done => session.calls = Len(prev) /\ Len(prev) <= N
      /\ session.done =>
           /\ session.calls = N + 1
           /\ Range(prev) = ids
           /\ DOMAIN resp.body = {"success"}
           /\ resp.body.success = TRUE

(* C10: over an unchanged table, a client that starts with no previous     *)
(* question and appends each returned id is given every candidate of its   *)
(* category once, never one twice, is answered 200 every time, and with N  *)
(* candidates its call N+1 is answered {success: true} without a           *)
(* question, which ends the session.                                       *)
C10_QuizSession == [](SessionOk) /\ <>(session.done)

C10_Witness ==
  /\ session.done
  /\ Len(session.previous_questions) = 2
  /\ session.calls = 3
  /\ session.quiz_category # 0

====
